---- MODULE Spec2Model ----
(***************************************************************************)
(* Model of the header/doc annotation scripts of aegis-orchestrator.       *)
(*                                                                         *)
(* Texts, lines and paths are TLA+ strings, i.e. sequences of characters;  *)
(* the Python string methods the scripts use (startswith, in, strip,       *)
(* lower, title, replace, split, join) are defined below character by      *)
(* character.  Python's 0-based indices are kept: lines[idx] of the source *)
(* is lines[idx + 1] here.                                                 *)
(***************************************************************************)
EXTENDS Integers, Sequences, FiniteSets, TLC

(***************************************************************************)
(* Bounds of the model.                                                    *)
(***************************************************************************)
\* longest input text, in lines, that Init enumerates
MaxLines ==
    3

\* number of consecutive runs of process_file on the same file
MaxRuns ==
    3

\* a write that fails leaves the first 0..MaxCut characters of the new text
MaxCut ==
    2

(***************************************************************************)
(* Python str methods.                                                     *)
(***************************************************************************)
SetMin(S) ==
    CHOOSE x \in S : \A y \in S : x <= y

SetMax(S) ==
    CHOOSE x \in S : \A y \in S : x >= y

CharAt(s, i) ==
    SubSeq(s, i, i)

\* s[i:] with a 0-based i
StrFrom(s, i) ==
    SubSeq(s, i + 1, Len(s))

\* s.startswith(p)
startswith(s, p) ==
    /\ Len(s) >= Len(p)
    /\ SubSeq(s, 1, Len(p)) = p

\* s.endswith(p)
endswith(s, p) ==
    /\ Len(s) >= Len(p)
    /\ SubSeq(s, Len(s) - Len(p) + 1, Len(s)) = p

\* p in s
contains(p, s) ==
    \E i \in 1..(Len(s) - Len(p) + 1) : SubSeq(s, i, i + Len(p) - 1) = p

\* the characters str.strip() removes, of the ASCII characters the texts of
\* the model are made of: tab, line feed, vertical tab, form feed, carriage
\* return, the separators 0x1c to 0x1f, and the space
Whitespace ==
    {"\t", "\n", "", "\f", "\r", "", "", "", "", " "}

\* s.strip()
strip(s) ==
    LET nw == {i \in 1..Len(s) : CharAt(s, i) \notin Whitespace}
    IN  IF nw = {} THEN "" ELSE SubSeq(s, SetMin(nw), SetMax(nw))

Uppers ==
    "ABCDEFGHIJKLMNOPQRSTUVWXYZ"

Lowers ==
    "abcdefghijklmnopqrstuvwxyz"

IsUpper(c) ==
    \E i \in 1..26 : CharAt(Uppers, i) = c

IsLower(c) ==
    \E i \in 1..26 : CharAt(Lowers, i) = c

LowerChar(c) ==
    IF IsUpper(c)
    THEN CharAt(Lowers, CHOOSE i \in 1..26 : CharAt(Uppers, i) = c)
    ELSE c

UpperChar(c) ==
    IF IsLower(c)
    THEN CharAt(Uppers, CHOOSE i \in 1..26 : CharAt(Lowers, i) = c)
    ELSE c

\* s.lower(), characters lo..hi of s (by halves, to keep the recursion shallow)
RECURSIVE lower_range(_, _, _)
lower_range(s, lo, hi) ==
    IF lo > hi THEN ""
    ELSE IF lo = hi THEN LowerChar(CharAt(s, lo))
    ELSE LET mid == (lo + hi) \div 2
         IN  lower_range(s, lo, mid) \o lower_range(s, mid + 1, hi)

\* s.lower()
lower(s) ==
    lower_range(s, 1, Len(s))

IsCased(c) ==
    IsUpper(c) \/ IsLower(c)

\* the character s.title() puts at position i: a cased character is
\* upper-cased after an uncased one (or at the start), lower-cased after a
\* cased one
TitleChar(s, i) ==
    LET c == CharAt(s, i)
    IN  IF ~IsCased(c) THEN c
        ELSE IF i > 1 /\ IsCased(CharAt(s, i - 1)) THEN LowerChar(c)
        ELSE UpperChar(c)

RECURSIVE title_range(_, _, _)
title_range(s, lo, hi) ==
    IF lo > hi THEN ""
    ELSE IF lo = hi THEN TitleChar(s, lo)
    ELSE LET mid == (lo + hi) \div 2
         IN  title_range(s, lo, mid) \o title_range(s, mid + 1, hi)

\* s.title()
title(s) ==
    title_range(s, 1, Len(s))

\* s.replace(old, new), old non-empty: leftmost non-overlapping occurrences
RECURSIVE replace(_, _, _)
replace(s, old, new) ==
    LET occ == {i \in 1..(Len(s) - Len(old) + 1) : SubSeq(s, i, i + Len(old) - 1) = old}
    IN  IF occ = {} THEN s
        ELSE SubSeq(s, 1, SetMin(occ) - 1) \o new
             \o replace(StrFrom(s, SetMin(occ) + Len(old) - 1), old, new)

\* the pieces of s between the separator positions seps, after position start
RECURSIVE split_at(_, _, _)
split_at(s, start, seps) ==
    IF seps = {} THEN <<StrFrom(s, start)>>
    ELSE LET i == SetMin(seps)
         IN  <<SubSeq(s, start + 1, i - 1)>> \o split_at(s, i, seps \ {i})

\* s.split('\n'): never an empty list
split(s) ==
    split_at(s, 0, {i \in 1..Len(s) : CharAt(s, i) = "\n"})

\* sep.join(seq)
RECURSIVE join(_, _)
join(sep, seq) ==
    IF Len(seq) = 0 THEN ""
    ELSE IF Len(seq) = 1 THEN seq[1]
    ELSE seq[1] \o sep \o join(sep, Tail(seq))

\* os.path.basename(p) (posixpath): what follows the last '/'
basename(p) ==
    LET sl == {i \in 1..Len(p) : CharAt(p, i) = "/"}
    IN  IF sl = {} THEN p ELSE StrFrom(p, SetMax(sl))

\* os.path.join(a, b) (posixpath), b relative
path_join(a, b) ==
    IF Len(a) = 0 \/ endswith(a, "/") THEN a \o b ELSE a \o "/" \o b

\* seq[i:] of a list with a 0-based i
ListFrom(seq, i) ==
    SubSeq(seq, i + 1, Len(seq))

(***************************************************************************)
(* inject_headers.py: lookup tables.                                       *)
(***************************************************************************)
\* the dict in insertion order, as (pattern, adr) pairs
ADR_MAPPINGS ==
    << <<"cortex/src/infrastructure/embedding_client.rs", "ADR-028: Embedding Model Selection">>,
       <<"cortex/src/application/cortex_pruner.rs", "ADR-029: Cortex Time-Decay Parameters">>,
       <<"orchestrator/core/src/infrastructure/runtime.rs", "ADR-027: Docker Runtime Implementation">>,
       <<"orchestrator/core/src/infrastructure/event_bus.rs", "ADR-030: Event Bus Architecture">>,
       <<"orchestrator/core/src/application/workflow_engine.rs", "ADR-031: Handlebars Template Engine">>,
       <<"orchestrator/core/src/domain/volume.rs", "ADR-032: Unified Storage via SeaweedFS">>,
       <<"orchestrator/tool_integration", "ADR-033: Orchestrator-Mediated MCP Tool Routing">>,
       <<"orchestrator/core/src/infrastructure/secrets", "ADR-034: OpenBao Secrets Management">>,
       <<"orchestrator/core/src/infrastructure/smcp", "ADR-035: SMCP Implementation">>,
       <<"orchestrator/core/src/infrastructure/nfs_gateway", "ADR-036: NFS Server Gateway Architecture">>,
       <<"storage/fsal", "ADR-036: NFS Server Gateway Architecture">> >>

\* a determine_layer that tests the cortex rule before the other ones
determine_layer_cortex_first(path) ==
    LET path_lower == lower(path)
    IN  IF contains("cortex\\", path_lower) \/ contains("cortex/", path_lower)
        THEN "Learning & Memory Layer"
        ELSE IF contains("domain\\", path_lower) \/ contains("domain/", path_lower)
        THEN "Domain Layer"
        ELSE IF contains("application\\", path_lower) \/ contains("application/", path_lower)
        THEN "Application Layer"
        ELSE IF contains("infrastructure\\", path_lower) \/ contains("infrastructure/", path_lower)
        THEN "Infrastructure Layer"
        ELSE IF contains("presentation\\", path_lower) \/ contains("presentation/", path_lower)
        THEN "Presentation Layer"
        ELSE IF contains("cli\\", path_lower) \/ contains("cli/", path_lower)
        THEN "Interface / Presentation Layer"
        ELSE IF contains("swarm\\", path_lower) \/ contains("swarm/", path_lower)
        THEN "Swarm Coordination Layer"
        ELSE "Core System"

determine_layer(path) ==
    LET path_lower == lower(path)
    IN  IF contains("domain\\", path_lower) \/ contains("domain/", path_lower)
        THEN "Domain Layer"
        ELSE IF contains("application\\", path_lower) \/ contains("application/", path_lower)
        THEN "Application Layer"
        ELSE IF contains("infrastructure\\", path_lower) \/ contains("infrastructure/", path_lower)
        THEN "Infrastructure Layer"
        ELSE IF contains("presentation\\", path_lower) \/ contains("presentation/", path_lower)
        THEN "Presentation Layer"
        ELSE IF contains("cli\\", path_lower) \/ contains("cli/", path_lower)
        THEN "Interface / Presentation Layer"
        ELSE IF contains("swarm\\", path_lower) \/ contains("swarm/", path_lower)
        THEN "Swarm Coordination Layer"
        ELSE IF contains("cortex\\", path_lower) \/ contains("cortex/", path_lower)
        THEN "Learning & Memory Layer"
        ELSE "Core System"

\* the for loop over ADR_MAPPINGS.items(), from entry k (1-based) on
RECURSIVE adrs_from(_, _)
adrs_from(path_norm, k) ==
    IF k > Len(ADR_MAPPINGS) THEN <<>>
    ELSE (IF contains(ADR_MAPPINGS[k][1], path_norm) THEN <<ADR_MAPPINGS[k][2]>> ELSE <<>>)
         \o adrs_from(path_norm, k + 1)

\* a determine_adrs that matches the patterns against the path as given
determine_adrs_as_given(path_str) ==
    adrs_from(path_str, 1)

determine_adrs(path_str) ==
    adrs_from(replace(path_str, "\\", "/"), 1)

(***************************************************************************)
(* inject_headers.py: process_file, step by step.                          *)
(***************************************************************************)
is_license_line(line) ==
    \/ startswith(line, "// Copyright (c)")
    \/ startswith(line, "// SPDX-License-Identifier")

is_blank(line) ==
    strip(line) = ""

is_doc_line(line) ==
    startswith(line, "//!")

\* a blank-line branch that also takes a blank line at index 2
license_blank_ok_idx3(line, copyright_present, idx) ==
    is_blank(line) /\ copyright_present /\ idx < 3

\* the blank-line branch of the license loop: a blank line is taken only
\* after a license line and only at index 0 or 1
license_blank_ok(line, copyright_present, idx) ==
    is_blank(line) /\ copyright_present /\ idx < 2

\* 1. the while loop that looks for the copyright header
RECURSIVE license_scan(_, _, _, _)
license_scan(lines, idx, copyright_present, out_lines) ==
    IF idx < Len(lines)
    THEN IF is_license_line(lines[idx + 1])
         THEN license_scan(lines, idx + 1, TRUE, Append(out_lines, lines[idx + 1]))
         ELSE IF license_blank_ok(lines[idx + 1], copyright_present, idx)
         THEN license_scan(lines, idx + 1, copyright_present, Append(out_lines, lines[idx + 1]))
         ELSE [idx |-> idx, copyright_present |-> copyright_present, out_lines |-> out_lines]
    ELSE [idx |-> idx, copyright_present |-> copyright_present, out_lines |-> out_lines]

LICENSE_TEMPLATE ==
    << "// Copyright (c) 2026 100monkeys.ai",
       "// SPDX-License-Identifier: AGPL-3.0",
       "" >>

\* the license loop followed by "if not copyright_present"
license_step(lines) ==
    LET r == license_scan(lines, 0, FALSE, <<>>)
    IN  IF ~r.copyright_present
        THEN [idx |-> 0, copyright_present |-> FALSE,
              out_lines |-> LICENSE_TEMPLATE \o r.out_lines]
        ELSE r

\* 2. the while loop that collects the existing doc comments
RECURSIVE doc_scan(_, _, _)
doc_scan(lines, idx, doc_lines) ==
    IF idx < Len(lines)
    THEN IF is_doc_line(lines[idx + 1]) \/ is_blank(lines[idx + 1])
         THEN IF is_blank(lines[idx + 1]) /\ Len(doc_lines) = 0
              THEN doc_scan(lines, idx + 1, doc_lines)
              ELSE doc_scan(lines, idx + 1, Append(doc_lines, lines[idx + 1]))
         ELSE [idx |-> idx, doc_lines |-> doc_lines]
    ELSE [idx |-> idx, doc_lines |-> doc_lines]

\* a Doc zone that keeps its trailing blank lines
strip_trailing_none(doc_lines) ==
    doc_lines

\* strip trailing empty lines from doc_lines
RECURSIVE strip_trailing(_)
strip_trailing(doc_lines) ==
    IF Len(doc_lines) > 0 /\ is_blank(doc_lines[Len(doc_lines)])
    THEN strip_trailing(SubSeq(doc_lines, 1, Len(doc_lines) - 1))
    ELSE doc_lines

\* has_architecture that looks at the first doc line only
has_architecture_first_line(doc_lines) ==
    Len(doc_lines) > 0 /\ contains("//! # Architecture", doc_lines[1])

has_architecture(doc_lines) ==
    \E i \in 1..Len(doc_lines) : contains("//! # Architecture", doc_lines[i])

\* has_adrs that never finds the bullet
has_adrs_never(doc_lines) ==
    FALSE

has_adrs(doc_lines) ==
    \E i \in 1..Len(doc_lines) : contains("Related ADRs", doc_lines[i])

module_name_of(filepath) ==
    title(replace(replace(basename(filepath), ".rs", ""), "_", " "))

\* filename, module_name, layer, adrs: what process_file derives from the path
path_locals(filepath) ==
    [module_name |-> module_name_of(filepath),
     layer |-> determine_layer(filepath),
     adrs |-> determine_adrs(filepath)]

adr_bullet(adrs) ==
    "//! - **Related ADRs:** " \o join(", ", adrs)

\* "if not doc_lines": no doc comments at all, create basic ones
case_a_doc(module_name, layer, adrs) ==
    << "//! " \o module_name,
       "//!",
       "//! Provides " \o lower(module_name) \o " functionality for the system.",
       "//!",
       "//! # Architecture",
       "//!",
       "//! - **Layer:** " \o layer,
       "//! - **Purpose:** Implements " \o lower(module_name) >>
    \o (IF Len(adrs) > 0 THEN <<adr_bullet(adrs)>> ELSE <<>>)

\* a Case B that rebuilds the doc comments instead of appending to them
case_b_doc_rebuild(doc_lines, module_name, layer, adrs) ==
    case_a_doc(module_name, layer, adrs)

\* "else": append the Architecture section to the existing doc comments
case_b_doc(doc_lines, module_name, layer, adrs) ==
    doc_lines
    \o << "//!",
          "//! # Architecture",
          "//!",
          "//! - **Layer:** " \o layer,
          "//! - **Purpose:** Implements internal responsibilities for " \o lower(module_name) >>
    \o (IF Len(adrs) > 0 THEN <<adr_bullet(adrs)>> ELSE <<>>)

\* next(i for i, line in enumerate(doc_lines) if '//! # Architecture' in line)
arch_idx_of(doc_lines) ==
    SetMin({i \in 1..Len(doc_lines) : contains("//! # Architecture", doc_lines[i])}) - 1

\* the first while loop over insert_idx
RECURSIVE insert_loop1(_, _)
insert_loop1(doc_lines, insert_idx) ==
    IF /\ insert_idx < Len(doc_lines)
       /\ strip(doc_lines[insert_idx + 1]) # "//!"
       /\ startswith(doc_lines[insert_idx + 1], "//!-") = FALSE
       /\ ~contains("Related ADRs", doc_lines[insert_idx + 1])
       /\ startswith(doc_lines[insert_idx + 1], "//! -")
    THEN insert_loop1(doc_lines, insert_idx + 1)
    ELSE insert_idx

\* the second while loop: the end of the bulleted list
RECURSIVE insert_loop2(_, _)
insert_loop2(doc_lines, insert_idx) ==
    IF /\ insert_idx < Len(doc_lines)
       /\ startswith(doc_lines[insert_idx + 1], "//! -")
    THEN insert_loop2(doc_lines, insert_idx + 1)
    ELSE insert_idx

insert_idx_of(doc_lines) ==
    insert_loop2(doc_lines, insert_loop1(doc_lines, arch_idx_of(doc_lines) + 1))

\* list_insert that assigns seq[i] = x (appends when i = len) instead of inserting
list_insert_overwrite(seq, i, x) ==
    SubSeq(seq, 1, i) \o <<x>> \o SubSeq(seq, i + 2, Len(seq))

\* list.insert(i, x) for 0 <= i <= len(list)
list_insert(seq, i, x) ==
    SubSeq(seq, 1, i) \o <<x>> \o SubSeq(seq, i + 1, Len(seq))

\* the Architecture section exists: inject Related ADRs if not present
case_c_doc(doc_lines, adrs) ==
    IF Len(adrs) > 0 /\ ~has_adrs(doc_lines)
    THEN list_insert(doc_lines, insert_idx_of(doc_lines), adr_bullet(adrs))
    ELSE doc_lines

\* the if/else over has_architecture: doc_lines after the synthesis
synth_doc(doc_lines, module_name, layer, adrs) ==
    IF ~has_architecture(doc_lines)
    THEN IF Len(doc_lines) = 0
         THEN case_a_doc(module_name, layer, adrs)
         ELSE case_b_doc(doc_lines, module_name, layer, adrs)
    ELSE case_c_doc(doc_lines, adrs)

\* skip_blank that skips the next line whether it is empty or not
skip_blank_one_always(lines, idx) ==
    IF idx < Len(lines) THEN idx + 1 ELSE idx

\* skip any empty lines before the actual code starts
RECURSIVE skip_blank(_, _)
skip_blank(lines, idx) ==
    IF idx < Len(lines) /\ is_blank(lines[idx + 1])
    THEN skip_blank(lines, idx + 1)
    ELSE idx

\* out_lines once the doc lines, the separator and the rest are appended
reassemble(out_lines, doc_lines, rest) ==
    out_lines \o doc_lines \o (IF Len(doc_lines) > 0 THEN <<"">> ELSE <<>>) \o rest

\* needs_write that rewrites every file
needs_write_always(new_content, content) ==
    TRUE

\* if new_content != content
needs_write(new_content, content) ==
    new_content # content

\* text-mode reading with newline=None (universal newlines): every "\r\n"
\* and every other "\r" of the file is read as "\n"
universal_newlines(text) ==
    IF ~contains("\r", text) THEN text
    ELSE replace(replace(text, "\r\n", "\n"), "\r", "\n")

\* f.read() on a file opened with open(filepath, 'r', encoding='utf-8')
f_read(text) ==
    universal_newlines(text)

\* f.write(new_content) on a file opened with open(filepath, 'w',
\* encoding='utf-8'): every "\n" is written as os.linesep, which is "\n" on
\* the POSIX systems the scripts run on, so the file holds the text as given
f_write(text) ==
    text

\* process_file up to the comparison: the locals it computes from the path
\* (given as info, see PathLocals) and from the text read
process_file_with(info, content) ==
    LET lines == split(content)
        lic == license_step(lines)
        scan == doc_scan(lines, lic.idx, <<>>)
        doc_in == strip_trailing(scan.doc_lines)
        doc_out == synth_doc(doc_in, info.module_name, info.layer, info.adrs)
        idx == skip_blank(lines, scan.idx)
        rest == ListFrom(lines, idx)
    IN  [copyright_present |-> lic.copyright_present,
         license_lines |-> lic.out_lines,
         doc_in |-> doc_in,
         doc_out |-> doc_out,
         rest |-> rest,
         new_content |-> join("\n", reassemble(lic.out_lines, doc_out, rest))]

(***************************************************************************)
(* State.                                                                  *)
(*   Spec     : process_file run again and again on one file               *)
(*   SpecMain : one run of main over a directory tree, with I/O failures   *)
(*   SpecPaths: determine_layer and determine_adrs applied to one path     *)
(*   SpecAdd  : add-license-headers.py, main run over a directory tree     *)
(*   SpecBoot : bootstrap.py, one run of the script                        *)
(***************************************************************************)
VARIABLES
    filepath,       \* Spec: the path handed to process_file
    info,           \* Spec: module_name, layer and adrs of filepath;
                    \* SpecMain: path -> module_name, layer and adrs
    disk,           \* Spec: the text of the file on disk
    original,       \* Spec: the text of the file before the first run
    opened,         \* Spec: the text of the file when the last run opened it
    content,        \* Spec: local "content" of the last run (the text read)
    locals,         \* Spec: the other locals of the last run (see process_file)
    runs,           \* Spec: number of runs of process_file so far
    writes,         \* Spec: number of runs that wrote the file
    fs,             \* SpecMain: path -> text on disk
    fs0,            \* SpecMain: path -> text on disk before the run
    todo,           \* SpecMain: the candidate files main has still to visit
    reads,          \* SpecMain: path -> number of open(filepath, 'r')
    opens_w,        \* SpecMain: path -> number of open(filepath, 'w')
    read_text,      \* SpecMain: path -> <<text>> read by process_file, <<>> if none
    raised,         \* SpecMain: the paths for which process_file raised
    reported,       \* SpecMain: the paths of the "Error processing" messages
    pc,             \* SpecMain: "walk" while main runs, "done" after it
                    \* SpecAdd, SpecBoot: the position of the running script
    scanned,        \* SpecAdd: local "scanned" of main
    updated,        \* SpecAdd: local "updated" of main
    prepends,       \* SpecAdd: path -> number of times HEADER was written
    last_add,       \* SpecAdd: <<[path, before, ret]>> of the last add_header
                    \* call that returned, <<>> if none
    passes,         \* SpecAdd: number of invocations of main so far
    environ,        \* SpecBoot: the environment variables and argv[1]
    boot,           \* SpecBoot: the locals of the script
    exit_code       \* SpecBoot: <<code>> once the process has exited

specVars ==
    <<filepath, info, disk, original, opened, content, locals, runs, writes>>

mainVars ==
    <<fs, fs0, todo, reads, opens_w, read_text, raised, reported, pc>>

addVars ==
    <<scanned, updated, prepends, last_add, passes>>

bootVars ==
    <<environ, boot, exit_code>>

vars ==
    <<filepath, info, disk, original, opened, content, locals, runs, writes,
      fs, fs0, todo, reads, opens_w, read_text, raised, reported, pc,
      scanned, updated, prepends, last_add, passes,
      environ, boot, exit_code>>

AddIdle ==
    /\ scanned = 0
    /\ updated = 0
    /\ prepends = <<>>
    /\ last_add = <<>>
    /\ passes = 0

BootIdle ==
    /\ environ = <<>>
    /\ boot = <<>>
    /\ exit_code = <<>>

(***************************************************************************)
(* Inputs of Spec.                                                         *)
(***************************************************************************)
\* the lines input texts are made of: blank lines, license lines that are
\* not the template's, doc lines of each kind the code tells apart, code
LineVocab ==
    { "",
      " ",
      "// Copyright (c) 2025 Acme",
      "// SPDX-License-Identifier: MIT",
      "// note",
      "//! Doc",
      "//!",
      "//! # Architecture",
      "//! - **Layer:** X",
      "//! - **Related ADRs:** ADR-001",
      "fn main() {}" }

RECURSIVE SeqsUpTo(_, _)
SeqsUpTo(S, n) ==
    IF n = 0 THEN {<<>>}
    ELSE LET shorter == SeqsUpTo(S, n - 1)
         IN  shorter \cup {Append(q, x) : q \in shorter, x \in S}

\* longer inputs: a licensed file with a complete Architecture section, doc
\* comments separated from the code by several blank lines, headings that
\* are not the exact heading text, a license header followed by a blank line
\* and a doc comment;
\* files with "\r\n" line ends (without a license line, with doc comments,
\* with a license line, and one that process_file leaves as it is), a file
\* with a lone "\r", and doc comments followed by lines of vertical tab and
\* separator characters
ScenarioTexts ==
    { "// Copyright (c) 2026 100monkeys.ai\n// SPDX-License-Identifier: AGPL-3.0\n\n//! Doc\n//!\n//! # Architecture\n//!\n//! - **Layer:** X\n//! - **Purpose:** P\n\nfn main() {}\n",
      "//! Doc\n\n \n\nfn main() {}",
      "//! Doc\n//! ## Architecture\n//! - **Layer:** X\nfn main() {}",
      "//! # architecture\n\nfn main() {}\n",
      "//!# Architecture\n//!\n//! text",
      "// Copyright (c) 2025 Acme\n\n// SPDX-License-Identifier: MIT\n\n//! Doc\nfn main() {}",
      "fn main() {}\r\n",
      "//! Doc\r\nfn main() {}\r\n",
      "// SPDX-License-Identifier: MIT\r\n\r\nfn main() {}\r\n",
      "// SPDX-License-Identifier: MIT\r\n//! # Architecture\r\n//! - **Related ADRs:** ADR-001\r\n\r\nfn main() {}",
      "let a = 1;\rlet b = 2;",
      "//! Doc\n\n\nfn main() {}" }

\* the input texts: 1..MaxLines lines of LineVocab joined by '\n', and the
\* longer inputs
Texts ==
    {join("\n", q) : q \in SeqsUpTo(LineVocab, MaxLines) \ {<<>>}}
        \cup ScenarioTexts

\* a path without ADR (layer "cli") and a path that matches two entries of
\* ADR_MAPPINGS (no layer directory)
Paths ==
    { "cli/a_b.rs",
      "orchestrator/tool_integration/storage/fsal.rs" }

process_file(path, text) ==
    process_file_with(path_locals(path), text)

NoLocals ==
    [copyright_present |-> FALSE, license_lines |-> <<>>, doc_in |-> <<>>,
     doc_out |-> <<>>, rest |-> <<>>, new_content |-> ""]

MainIdle ==
    /\ fs = <<>>
    /\ fs0 = <<>>
    /\ todo = <<>>
    /\ reads = <<>>
    /\ opens_w = <<>>
    /\ read_text = <<>>
    /\ raised = {}
    /\ reported = <<>>
    /\ pc = "idle"

Init ==
    /\ filepath \in Paths
    /\ info = path_locals(filepath)
    /\ disk \in Texts
    /\ original = disk
    /\ opened = ""
    /\ content = ""
    /\ locals = NoLocals
    /\ runs = 0
    /\ writes = 0
    /\ MainIdle
    /\ AddIdle
    /\ BootIdle

\* one call process_file(filepath): read, compute, write if changed; the path
\* and the tables are fixed, so info is what the run derives from filepath
ProcessFile ==
    /\ runs < MaxRuns
    /\ \E text \in {f_read(disk)} :
       \E r \in {process_file_with(info, text)} :
           /\ opened' = disk
           /\ content' = text
           /\ locals' = r
           /\ disk' = IF needs_write(r.new_content, text) THEN f_write(r.new_content) ELSE disk
           /\ writes' = IF needs_write(r.new_content, text) THEN writes + 1 ELSE writes
    /\ runs' = runs + 1
    /\ UNCHANGED <<filepath, info, original>>
    /\ UNCHANGED mainVars
    /\ UNCHANGED <<addVars, bootVars>>

Next ==
    ProcessFile

Spec ==
    Init /\ [][Next]_vars

(***************************************************************************)
(* inject_headers.py: what process_file derives from the path              *)
(* (specification SpecPaths): one run on an empty file, for paths made of  *)
(* layer directories, ADR patterns and other names, with either separator. *)
(***************************************************************************)
\* number of directory parts of an input path
MaxDirs ==
    2

\* directory parts: the layer directories (one in upper case, one that is
\* only the end of a name), ADR patterns, a name without any rule
DirParts ==
    { "Domain",
      "cortex/src/application",
      "infrastructure",
      "presentation",
      "mycli",
      "swarm",
      "src",
      "orchestrator/tool_integration",
      "orchestrator/core/src/infrastructure/nfs_gateway",
      "storage/fsal" }

\* file names: one that completes an ADR pattern, one named like a layer
FileNames ==
    { "cortex_pruner.rs", "cli.rs" }

PathInputs ==
    { replace(join("/", Append(dirs, name)), "/", sep) :
        dirs \in SeqsUpTo(DirParts, MaxDirs) \ {<<>>},
        name \in FileNames,
        sep \in {"/", "\\"} }

NoInfo ==
    [module_name |-> "", layer |-> "", adrs |-> <<>>]

PathsInit ==
    /\ filepath \in PathInputs
    /\ info = NoInfo
    /\ disk = ""
    /\ original = ""
    /\ opened = ""
    /\ content = ""
    /\ locals = NoLocals
    /\ runs = 0
    /\ writes = 0
    /\ MainIdle
    /\ AddIdle
    /\ BootIdle

\* process_file(filepath) on the empty file: module_name, layer and adrs are
\* derived from the path and go into the generated doc comments
ProcessEmptyFile ==
    /\ runs = 0
    /\ \E path_info \in {path_locals(filepath)} :
       \E text \in {f_read(disk)} :
       \E r \in {process_file_with(path_info, text)} :
           /\ info' = path_info
           /\ opened' = disk
           /\ content' = text
           /\ locals' = r
           /\ disk' = IF needs_write(r.new_content, text) THEN f_write(r.new_content) ELSE disk
           /\ writes' = IF needs_write(r.new_content, text) THEN writes + 1 ELSE writes
    /\ runs' = runs + 1
    /\ UNCHANGED <<filepath, original>>
    /\ UNCHANGED mainVars
    /\ UNCHANGED <<addVars, bootVars>>

PathsNext ==
    ProcessEmptyFile

SpecPaths ==
    PathsInit /\ [][PathsNext]_vars

(***************************************************************************)
(* inject_headers.py: main, one run over the tree under repo_dir           *)
(* (specification SpecMain).                                               *)
(***************************************************************************)
REPO_DIR ==
    "c:/Users/travi/Documents/git_repos/aegis-greenfield/repos/aegis-orchestrator"

\* the directory names main removes from dirs
IGNORED_DIRS ==
    {"node_modules", "target", "dist"}

\* the tree os.walk finds: directory -> the names of its sub-directories and
\* of its files; the order in which a directory lists them is not fixed
Tree ==
    (REPO_DIR :> [dirs |-> {"cli", "target", "storage"}, files |-> {"README.md", "lib.rs"}])
    @@ (path_join(REPO_DIR, "cli") :> [dirs |-> {}, files |-> {"a_b.rs"}])
    @@ (path_join(REPO_DIR, "target") :> [dirs |-> {}, files |-> {"gen.rs"}])
    @@ (path_join(REPO_DIR, "storage") :> [dirs |-> {"fsal"}, files |-> {}])
    @@ (path_join(REPO_DIR, "storage/fsal") :> [dirs |-> {}, files |-> {"x.rs"}])

\* every file of the tree, pruned directories included
AllFiles ==
    UNION {{path_join(d, name) : name \in Tree[d].files} : d \in DOMAIN Tree}

\* the orders in which os.scandir can list the names of a directory
listings(names) ==
    {q \in [1..Cardinality(names) -> names] : \A name \in names : \E i \in DOMAIN q : q[i] = name}

is_rs(file) ==
    endswith(file, ".rs")

not_ignored(dir) ==
    dir \notin IGNORED_DIRS

\* the filepaths of "for file in files: if file.endswith('.rs')"
rs_paths(root, files) ==
    LET rs == SelectSeq(files, is_rs)
    IN  [i \in 1..Len(rs) |-> path_join(root, rs[i])]

\* for root, dirs, files in os.walk(repo_dir), top-down, with the ignored
\* names removed from dirs: the files handed to process_file, in order, for
\* every order in which the directories can list their names
RECURSIVE walk(_), walk_dirs(_, _)
walk(root) ==
    UNION { { rs_paths(root, files) \o below :
                below \in walk_dirs(root, SelectSeq(dirs, not_ignored)) } :
            files \in listings(Tree[root].files), dirs \in listings(Tree[root].dirs) }

walk_dirs(root, dirs) ==
    IF Len(dirs) = 0 THEN {<<>>}
    ELSE { first \o others : first \in walk(path_join(root, dirs[1])),
                             others \in walk_dirs(root, Tail(dirs)) }

\* a text every run leaves unchanged, whatever the path
StableText ==
    "// SPDX-License-Identifier: MIT\n//! # Architecture\n//! - **Related ADRs:** ADR-001\n\nfn main() {}"

\* texts of the files before the run: two that process_file rewrites, one
\* that it leaves alone, and the last two with "\r\n" line ends
MainTexts ==
    {"", "//! Doc\nfn main() {}", StableText,
     "//! Doc\r\nfn main() {}", replace(StableText, "\n", "\r\n")}

\* after_exception when the exception is left to end the run
after_exception_abort(files_left) ==
    <<>>

\* except Exception as e: print(...); the for loop goes on with the next file
after_exception(files_left) ==
    Tail(files_left)

SpecIdle ==
    /\ filepath = ""
    /\ disk = ""
    /\ original = ""
    /\ opened = ""
    /\ content = ""
    /\ locals = NoLocals
    /\ runs = 0
    /\ writes = 0

MainInit ==
    /\ SpecIdle
    /\ todo \in walk(REPO_DIR)
    /\ fs \in [AllFiles -> MainTexts]
    /\ \A f \in AllFiles : (\A i \in 1..Len(todo) : todo[i] # f) => fs[f] = ""
    /\ fs0 = fs
    /\ info = [f \in {todo[i] : i \in 1..Len(todo)} |-> path_locals(f)]
    /\ reads = [f \in AllFiles |-> 0]
    /\ opens_w = [f \in AllFiles |-> 0]
    /\ read_text = [f \in AllFiles |-> <<>>]
    /\ raised = {}
    /\ reported = <<>>
    /\ pc = "walk"
    /\ AddIdle
    /\ BootIdle

\* the next file of the loop
Visiting ==
    Head(todo)

\* process_file(filepath) returns: the file is read, and rewritten if changed
VisitOk ==
    /\ pc = "walk"
    /\ Len(todo) > 0
    /\ \E f \in {Visiting} :
       \E text \in {f_read(fs[f])} :
       \E r \in {process_file_with(info[f], text)} :
           /\ reads' = [reads EXCEPT ![f] = @ + 1]
           /\ read_text' = [read_text EXCEPT ![f] = <<text>>]
           /\ IF needs_write(r.new_content, text)
              THEN /\ opens_w' = [opens_w EXCEPT ![f] = @ + 1]
                   /\ fs' = [fs EXCEPT ![f] = f_write(r.new_content)]
              ELSE UNCHANGED <<opens_w, fs>>
    /\ todo' = Tail(todo)
    /\ UNCHANGED <<raised, reported, pc, fs0, info>>
    /\ UNCHANGED <<filepath, disk, original, opened, content, locals, runs, writes>>
    /\ UNCHANGED <<addVars, bootVars>>

\* open(filepath, 'r') or f.read() raises (OSError, UnicodeDecodeError)
VisitReadFails ==
    /\ pc = "walk"
    /\ Len(todo) > 0
    /\ reads' = [reads EXCEPT ![Visiting] = @ + 1]
    /\ raised' = raised \cup {Visiting}
    /\ reported' = Append(reported, Visiting)
    /\ todo' = after_exception(todo)
    /\ UNCHANGED <<read_text, opens_w, fs, pc, fs0, info>>
    /\ UNCHANGED <<filepath, disk, original, opened, content, locals, runs, writes>>
    /\ UNCHANGED <<addVars, bootVars>>

\* open(filepath, 'w') raises (PermissionError, ...): the file is not truncated
VisitOpenFails ==
    /\ pc = "walk"
    /\ Len(todo) > 0
    /\ \E f \in {Visiting} :
       \E text \in {f_read(fs[f])} :
       \E r \in {process_file_with(info[f], text)} :
           /\ needs_write(r.new_content, text)
           /\ reads' = [reads EXCEPT ![f] = @ + 1]
           /\ read_text' = [read_text EXCEPT ![f] = <<text>>]
           /\ opens_w' = [opens_w EXCEPT ![f] = @ + 1]
    /\ raised' = raised \cup {Visiting}
    /\ reported' = Append(reported, Visiting)
    /\ todo' = after_exception(todo)
    /\ UNCHANGED <<fs, pc, fs0, info>>
    /\ UNCHANGED <<filepath, disk, original, opened, content, locals, runs, writes>>
    /\ UNCHANGED <<addVars, bootVars>>

\* open(filepath, 'w') truncates the file, then f.write or the flush on close
\* raises (disk full, I/O error): only a proper prefix of the text is on disk
VisitWriteFails ==
    /\ pc = "walk"
    /\ Len(todo) > 0
    /\ \E f \in {Visiting} :
       \E text \in {f_read(fs[f])} :
       \E r \in {process_file_with(info[f], text)} :
           /\ needs_write(r.new_content, text)
           /\ reads' = [reads EXCEPT ![f] = @ + 1]
           /\ read_text' = [read_text EXCEPT ![f] = <<text>>]
           /\ opens_w' = [opens_w EXCEPT ![f] = @ + 1]
           /\ \E k \in 0..MaxCut :
                  /\ k < Len(f_write(r.new_content))
                  /\ fs' = [fs EXCEPT ![f] = SubSeq(f_write(r.new_content), 1, k)]
    /\ raised' = raised \cup {Visiting}
    /\ reported' = Append(reported, Visiting)
    /\ todo' = after_exception(todo)
    /\ UNCHANGED <<pc, fs0, info>>
    /\ UNCHANGED <<filepath, disk, original, opened, content, locals, runs, writes>>
    /\ UNCHANGED <<addVars, bootVars>>

\* os.walk is exhausted: main returns
Finish ==
    /\ pc = "walk"
    /\ Len(todo) = 0
    /\ pc' = "done"
    /\ UNCHANGED <<fs, fs0, todo, reads, opens_w, read_text, raised, reported, info>>
    /\ UNCHANGED <<filepath, disk, original, opened, content, locals, runs, writes>>
    /\ UNCHANGED <<addVars, bootVars>>

MainNext ==
    \/ VisitOk
    \/ VisitReadFails
    \/ VisitOpenFails
    \/ VisitWriteFails
    \/ Finish

SpecMain ==
    MainInit /\ [][MainNext]_vars

(***************************************************************************)
(* add-license-headers.py: add_header and main (specification SpecAdd).    *)
(* main is run up to MaxPasses times over the same tree; read_text and     *)
(* write_text can fail.                                                    *)
(***************************************************************************)
\* number of invocations of main
MaxPasses ==
    2

\* ROOT = Path(__file__).resolve().parent: the directory of the script
ROOT ==
    "/repo"

HEADER ==
    "// Copyright (c) 2026 100monkeys.ai\n// SPDX-License-Identifier: AGPL-3.0\n\n"

SPDX_MARKER ==
    "SPDX-License-Identifier: AGPL-3.0"

SKIP_DIRS ==
    {"target", ".git", ".github", ".idea", ".vscode"}

\* path.parts of an absolute path: the root '/' and the names
parts(path) ==
    LET names == split_at(path, 0, {i \in 1..Len(path) : CharAt(path, i) = "/"})
    IN  <<"/">> \o SelectSeq(names, LAMBDA n : n # "")

should_skip(path) ==
    \E i \in 1..Len(parts(path)) : parts(path)[i] \in SKIP_DIRS

\* the tree under ROOT: directory -> the names of its sub-directories and of
\* its files; the order in which a directory lists them is not fixed
ROOT_TREE ==
    (ROOT :> [dirs |-> {"cli", "src"}, files |-> {"lib.rs", "README.md"}])
    @@ ("/repo/cli" :> [dirs |-> {".git"}, files |-> {"a_b.rs"}])
    @@ ("/repo/cli/.git" :> [dirs |-> {}, files |-> {"x.rs"}])
    @@ ("/repo/src" :> [dirs |-> {"target"}, files |-> {"main.rs"}])
    @@ ("/repo/src/target" :> [dirs |-> {"debug"}, files |-> {}])
    @@ ("/repo/src/target/debug" :> [dirs |-> {}, files |-> {"gen.rs"}])

\* the files under ROOT
ROOT_FILES ==
    UNION {{d \o "/" \o name : name \in ROOT_TREE[d].files} : d \in DOMAIN ROOT_TREE}

\* the pattern "*.rs" against the name of a file
matches_rs(path) ==
    endswith(basename(path), ".rs")

\* the entries of directory dir that match "*.rs", in the listed order
matches_in(dir, names) ==
    LET found == SelectSeq(names, LAMBDA name : matches_rs(name))
    IN  [i \in 1..Len(found) |-> dir \o "/" \o found[i]]

\* ROOT.rglob("*.rs"): the matches of a directory, then those of each of its
\* sub-directories in turn, for every order in which the directories can
\* list their names
RECURSIVE rglob_from(_), rglob_below(_, _)
rglob_from(dir) ==
    UNION { { matches_in(dir, files) \o below : below \in rglob_below(dir, dirs) } :
            files \in listings(ROOT_TREE[dir].files), dirs \in listings(ROOT_TREE[dir].dirs) }

rglob_below(dir, dirs) ==
    IF Len(dirs) = 0 THEN {<<>>}
    ELSE { first \o others : first \in rglob_from(dir \o "/" \o dirs[1]),
                             others \in rglob_below(dir, Tail(dirs)) }

rglob_rs ==
    rglob_from(ROOT)

\* the files main hands to add_header
AddCandidates ==
    {f \in ROOT_FILES : matches_rs(f) /\ ~should_skip(f)}

\* the texts of the candidate files: empty, code only, already with the
\* header, another license, the marker in the middle of the file (as part of
\* a longer identifier), a copyright line only, code with a "\r\n" line end
AddTexts ==
    { "",
      "fn main() {}\n",
      "// Copyright (c) 2026 100monkeys.ai\n// SPDX-License-Identifier: AGPL-3.0\n\nfn main() {}\n",
      "// SPDX-License-Identifier: MIT\nfn main() {}\n",
      "fn main() {}\n// SPDX-License-Identifier: AGPL-3.0-only\n",
      "// Copyright (c) 2026 100monkeys.ai\nfn main() {}",
      "fn main() {}\r\n" }

\* a marker test that only recognises the header at the top of the file
has_marker_at_top(file_content) ==
    startswith(file_content, HEADER)

\* SPDX_MARKER in content
has_marker(file_content) ==
    contains(SPDX_MARKER, file_content)

\* path.read_text(encoding="utf-8"): the text of the file with universal
\* newlines
path_read_text(text) ==
    universal_newlines(text)

\* path.write_text(text, encoding="utf-8"): every "\n" is written as
\* os.linesep, which is "\n" on the POSIX systems the scripts run on
path_write_text(text) ==
    text

\* add_header on a file that holds on_disk, no failure: the value returned
\* and the text the file holds afterwards
add_header(on_disk) ==
    LET file_content == path_read_text(on_disk)
    IN  IF has_marker(file_content)
        THEN [ret |-> FALSE, text |-> on_disk]
        ELSE [ret |-> TRUE, text |-> path_write_text(HEADER \o file_content)]

AddInit ==
    /\ SpecIdle
    /\ info = NoInfo
    /\ BootIdle
    /\ fs \in [ROOT_FILES -> AddTexts]
    /\ \A f \in DOMAIN fs : f \notin AddCandidates => fs[f] = "fn main() {}\n"
    /\ fs[ROOT \o "/lib.rs"] \in {"fn main() {}\n", "fn main() {}\r\n"}
    /\ fs0 = fs
    /\ todo \in rglob_rs
    /\ reads = <<>>
    /\ opens_w = <<>>
    /\ read_text = <<>>
    /\ raised = {}
    /\ reported = <<>>
    /\ pc = "scan"
    /\ scanned = 0
    /\ updated = 0
    /\ prepends = [f \in DOMAIN fs |-> 0]
    /\ last_add = <<>>
    /\ passes = 1

\* "if should_skip(file_path): continue"
AddSkip ==
    /\ pc = "scan"
    /\ Len(todo) > 0
    /\ should_skip(Head(todo))
    /\ todo' = Tail(todo)
    /\ UNCHANGED <<fs, fs0, raised, reported, pc, reads, opens_w, read_text>>
    /\ UNCHANGED addVars
    /\ UNCHANGED <<specVars, bootVars>>

\* scanned += 1; add_header(file_path) returns; updated += 1 if it is True
AddHeaderReturns ==
    /\ pc = "scan"
    /\ Len(todo) > 0
    /\ ~should_skip(Head(todo))
    /\ LET f == Head(todo)
           r == add_header(fs[f])
       IN  /\ fs' = [fs EXCEPT ![f] = r.text]
           /\ updated' = IF r.ret THEN updated + 1 ELSE updated
           /\ prepends' = [prepends EXCEPT ![f] = IF r.ret THEN @ + 1 ELSE @]
           /\ last_add' = <<[path |-> f, before |-> fs[f], ret |-> r.ret]>>
    /\ scanned' = scanned + 1
    /\ todo' = Tail(todo)
    /\ UNCHANGED <<fs0, raised, reported, pc, reads, opens_w, read_text, passes>>
    /\ UNCHANGED <<specVars, bootVars>>

\* scanned += 1; read_text raises (OSError, UnicodeDecodeError): nothing
\* catches it, the exception leaves main and the process ends
AddReadFails ==
    /\ pc = "scan"
    /\ Len(todo) > 0
    /\ ~should_skip(Head(todo))
    /\ scanned' = scanned + 1
    /\ raised' = raised \cup {Head(todo)}
    /\ pc' = "crashed"
    /\ UNCHANGED <<fs, fs0, todo, reported, reads, opens_w, read_text>>
    /\ UNCHANGED <<updated, prepends, last_add, passes>>
    /\ UNCHANGED <<specVars, bootVars>>

\* scanned += 1; the marker is absent and write_text raises: the file keeps
\* its text (the open failed) or is left with the first characters of the
\* new text; the exception leaves main and the process ends
AddWriteFails ==
    /\ pc = "scan"
    /\ Len(todo) > 0
    /\ ~should_skip(Head(todo))
    /\ LET f == Head(todo)
       IN  /\ ~has_marker(path_read_text(fs[f]))
           /\ \/ fs' = fs
              \/ \E k \in 0..MaxCut :
                     fs' = [fs EXCEPT ![f] =
                               SubSeq(path_write_text(HEADER \o path_read_text(fs[f])), 1, k)]
    /\ scanned' = scanned + 1
    /\ raised' = raised \cup {Head(todo)}
    /\ pc' = "crashed"
    /\ UNCHANGED <<fs0, todo, reported, reads, opens_w, read_text>>
    /\ UNCHANGED <<updated, prepends, last_add, passes>>
    /\ UNCHANGED <<specVars, bootVars>>

\* rglob is exhausted: the summary is printed and main returns 0
AddFinish ==
    /\ pc = "scan"
    /\ Len(todo) = 0
    /\ reported' = Append(reported, [scanned |-> scanned, updated |-> updated])
    /\ pc' = "done"
    /\ UNCHANGED <<fs, fs0, todo, raised, reads, opens_w, read_text>>
    /\ UNCHANGED addVars
    /\ UNCHANGED <<specVars, bootVars>>

\* the script is run again on the same tree
AddAgain ==
    /\ pc \in {"done", "crashed"}
    /\ passes < MaxPasses
    /\ passes' = passes + 1
    /\ todo' \in rglob_rs
    /\ scanned' = 0
    /\ updated' = 0
    /\ reported' = <<>>
    /\ pc' = "scan"
    /\ UNCHANGED <<fs, fs0, raised, reads, opens_w, read_text, prepends, last_add>>
    /\ UNCHANGED <<specVars, bootVars>>

AddNext ==
    \/ AddSkip
    \/ AddHeaderReturns
    \/ AddReadFails
    \/ AddWriteFails
    \/ AddFinish
    \/ AddAgain

SpecAdd ==
    AddInit /\ [][AddNext]_vars

(***************************************************************************)
(* bootstrap.py: one run of the script (specification SpecBoot).           *)
(* The environment variables, argv[1], stdin and the answer to each        *)
(* request are inputs.  A JSON value is a record tagged with its Python    *)
(* type; a body is <<text>> when its bytes are valid UTF-8 and <<>> when   *)
(* they are not.                                                           *)
(***************************************************************************)
DEFAULT_URL ==
    "http://host.docker.internal:8000"

JNull ==
    [t |-> "null"]

JInt(n) ==
    [t |-> "int", v |-> n]

JStr(s) ==
    [t |-> "str", v |-> s]

JList(items) ==
    [t |-> "list", v |-> items]

\* a JSON object: a function from its keys to their values
JDict(members) ==
    [t |-> "dict", v |-> members]

\* json.loads on the texts of the model; ok is FALSE for json.JSONDecodeError
json_loads(s) ==
    CASE s = "[]" -> [ok |-> TRUE, value |-> JList(<<>>)]
      [] s = "{}" -> [ok |-> TRUE, value |-> JDict(<<>>)]
      [] s = "null" -> [ok |-> TRUE, value |-> JNull]
      [] s = "5" -> [ok |-> TRUE, value |-> JInt(5)]
      [] s = "\"abc\"" -> [ok |-> TRUE, value |-> JStr("abc")]
      [] s = "[1]" -> [ok |-> TRUE, value |-> JList(<<JInt(1)>>)]
      [] s = "{\"iteration\": 1}" -> [ok |-> TRUE, value |-> JDict([iteration |-> JInt(1)])]
      [] s = "[{\"iteration\": 1, \"output\": \"o\", \"error\": \"\"}]" ->
             [ok |-> TRUE,
              value |-> JList(<<JDict([iteration |-> JInt(1), output |-> JStr("o"),
                                       error |-> JStr("")])>>)]
      [] s = "[{\"error\": \"e\", \"feedback\": \"f\"}, {\"iteration\": 2}]" ->
             [ok |-> TRUE,
              value |-> JList(<<JDict([error |-> JStr("e"), feedback |-> JStr("f")]),
                                JDict([iteration |-> JInt(2)])>>)]
      [] s = "{\"content\": \"yo\"}" -> [ok |-> TRUE, value |-> JDict([content |-> JStr("yo")])]
      [] s = "{\"content\": null}" -> [ok |-> TRUE, value |-> JDict([content |-> JNull])]
      [] s = "{\"text\": \"yo\"}" -> [ok |-> TRUE, value |-> JDict([text |-> JStr("yo")])]
      [] OTHER -> [ok |-> FALSE, value |-> JNull]

\* bool(x)
truthy(x) ==
    CASE x.t = "null" -> FALSE
      [] x.t = "int" -> x.v # 0
      [] x.t = "str" -> Len(x.v) > 0
      [] x.t = "list" -> Len(x.v) > 0
      [] x.t = "dict" -> DOMAIN x.v # {}

\* str(x) as an f-string formats it, for the values of the model
py_str(x) ==
    CASE x.t = "str" -> x.v
      [] x.t = "int" -> <<"0", "1", "2", "3", "4", "5", "6", "7", "8", "9">>[x.v + 1]
      [] x.t = "null" -> "None"

\* item.get(key, default) of a dict
dict_get(item, key, default) ==
    IF key \in DOMAIN item.v THEN item.v[key] ELSE default

\* key in item and item[key]
has_value(item, key) ==
    key \in DOMAIN item.v /\ truthy(item.v[key])

\* what the body of "for item in iteration_history" adds to history_context
item_context(item) ==
    "\n## Iteration " \o py_str(dict_get(item, "iteration", JStr("?"))) \o ":\n"
    \o (IF has_value(item, "output")
        THEN "Output:\n" \o py_str(item.v["output"]) \o "\n" ELSE "")
    \o (IF has_value(item, "error")
        THEN "Error:\n" \o py_str(item.v["error"]) \o "\n" ELSE "")
    \o (IF has_value(item, "feedback")
        THEN "Feedback:\n" \o py_str(item.v["feedback"]) \o "\n" ELSE "")

RECURSIVE items_context(_)
items_context(items) ==
    IF Len(items) = 0 THEN ""
    ELSE item_context(items[1]) \o items_context(Tail(items))

\* every item the for loop meets has a get method: the value is a list of
\* dicts (the items of a str or of a dict are strs, other values cannot be
\* iterated)
iterable_with_get(x) ==
    x.t = "list" /\ \A i \in 1..Len(x.v) : x.v[i].t = "dict"

\* the history block raises an exception other than json.JSONDecodeError
\* (TypeError, AttributeError), which the except clause does not catch
history_raises(x) ==
    truthy(x) /\ ~iterable_with_get(x)

\* 3. the history block: raises is TRUE when an exception leaves it
build_history(iteration_history_json) ==
    LET parsed == json_loads(iteration_history_json)
    IN  IF ~parsed.ok THEN [raises |-> FALSE, history_context |-> ""]
        ELSE IF ~truthy(parsed.value) THEN [raises |-> FALSE, history_context |-> ""]
        ELSE IF history_raises(parsed.value) THEN [raises |-> TRUE, history_context |-> ""]
        ELSE [raises |-> FALSE,
              history_context |-> "\n\n# Previous Attempts:\n"
                                  \o items_context(parsed.value.v)
                                  \o "\n# Current Attempt:\n"]

\* int(iteration_env) on the texts of the model; ok is FALSE for ValueError
int_of(s) ==
    CASE s = "2" -> [ok |-> TRUE, value |-> 2]
      [] OTHER -> [ok |-> FALSE, value |-> 0]

\* list(dict.fromkeys(urls)): the first occurrence of each element
RECURSIVE dedupe(_)
dedupe(seq) ==
    IF Len(seq) = 0 THEN <<>>
    ELSE LET front == dedupe(SubSeq(seq, 1, Len(seq) - 1))
             last == seq[Len(seq)]
         IN  IF \E i \in 1..Len(front) : front[i] = last THEN front
             ELSE Append(front, last)

\* the list "User override -> Default"; url_env is <<>> when the variable
\* is not set
url_list(url_env) ==
    dedupe((IF url_env # <<>> /\ Len(url_env[1]) > 0 THEN <<url_env[1]>> ELSE <<>>)
           \o <<DEFAULT_URL>>)

\* s.rstrip('/')
RECURSIVE rstrip_slash(_)
rstrip_slash(s) ==
    IF Len(s) > 0 /\ CharAt(s, Len(s)) = "/"
    THEN rstrip_slash(SubSeq(s, 1, Len(s) - 1))
    ELSE s

request_url(base_url) ==
    rstrip_slash(base_url) \o "/v1/llm/generate"

\* the try block of one iteration of the for loop, for the answer resp to
\* the request: "success", an error entry of the kind named, or
\* "handler_raises" when the except clause itself raises
attempt_outcome(resp) ==
    IF resp.kind = "response"
    THEN IF 200 <= resp.status /\ resp.status < 300
         THEN IF resp.body = <<>> THEN "exception"
              ELSE LET parsed == json_loads(resp.body[1])
                   IN  IF ~parsed.ok THEN "exception"
                       ELSE IF parsed.value.t # "dict" THEN "exception"
                       ELSE IF dict_get(parsed.value, "content", JStr("")).t
                                   \notin {"str", "list", "dict"}
                       THEN "exception"
                       ELSE "success"
         ELSE "status"
    ELSE IF resp.kind = "http_error"
    THEN IF resp.body = <<>> THEN "handler_raises" ELSE "http_error"
    ELSE "exception"

\* print(content) of a successful attempt
printed_content(resp) ==
    py_str(dict_get(json_loads(resp.body[1]).value, "content", JStr("")))

\* the answers to a request: 2xx with a JSON object (content a string,
\* null, or missing), with JSON that is no object, with text that is no
\* JSON, with bytes that are no UTF-8; an HTTP error status (urlopen raises
\* HTTPError for it) with a text body and with a body that is no UTF-8; no
\* answer at all (URLError, timeout)
Responses ==
    { [kind |-> "response", status |-> 200, body |-> <<"{\"content\": \"yo\"}">>],
      [kind |-> "response", status |-> 200, body |-> <<"{\"content\": null}">>],
      [kind |-> "response", status |-> 201, body |-> <<"{\"text\": \"yo\"}">>],
      [kind |-> "response", status |-> 200, body |-> <<"[1]">>],
      [kind |-> "response", status |-> 200, body |-> <<"oops">>],
      [kind |-> "response", status |-> 200, body |-> <<>>],
      [kind |-> "http_error", status |-> 500, body |-> <<"boom">>],
      [kind |-> "http_error", status |-> 502, body |-> <<>>],
      [kind |-> "exception", status |-> 0, body |-> <<>>] }

\* AEGIS_ORCHESTRATOR_URL: not set, empty, the default, another URL with a
\* trailing slash, the default with a trailing slash
UrlEnvs ==
    { <<>>,
      <<"">>,
      <<"http://host.docker.internal:8000">>,
      <<"http://orch:9000/">>,
      <<"http://host.docker.internal:8000/">> }

\* AEGIS_ITERATION_HISTORY: not set, lists of objects, text that is no JSON,
\* JSON of another shape
HistoryEnvs ==
    { <<>>,
      <<"[]">>,
      <<"[{\"iteration\": 1, \"output\": \"o\", \"error\": \"\"}]">>,
      <<"[{\"error\": \"e\", \"feedback\": \"f\"}, {\"iteration\": 2}]">>,
      <<"">>,
      <<"not json">>,
      <<"{}">>,
      <<"null">>,
      <<"5">>,
      <<"\"abc\"">>,
      <<"[1]">>,
      <<"{\"iteration\": 1}">> }

\* AEGIS_ITERATION: not set, a number, text that is no number
IterationEnvs ==
    { <<>>, <<"2">>, <<"two">> }

\* sys.argv[1:] and the text on stdin, which is read only without argv[1]
PromptInputs ==
    { [argv |-> <<"Hi">>, stdin |-> ""],
      [argv |-> <<"">>, stdin |-> ""],
      [argv |-> <<>>, stdin |-> " Hi\n"],
      [argv |-> <<>>, stdin |-> " \n"] }

NoBoot ==
    [rendered_prompt |-> "", iteration_number |-> <<>>, history_context |-> "",
     final_prompt |-> "", urls |-> <<>>, attempts |-> <<>>, errors |-> <<>>,
     success |-> FALSE, printed |-> <<>>]

BootInit ==
    /\ SpecIdle
    /\ info = NoInfo
    /\ AddIdle
    /\ fs = <<>>
    /\ fs0 = <<>>
    /\ todo = <<>>
    /\ reads = <<>>
    /\ opens_w = <<>>
    /\ read_text = <<>>
    /\ raised = {}
    /\ reported = <<>>
    /\ environ \in [AEGIS_ORCHESTRATOR_URL : UrlEnvs,
                    AEGIS_ITERATION_HISTORY : HistoryEnvs,
                    AEGIS_ITERATION : IterationEnvs,
                    prompt : PromptInputs]
    /\ boot = NoBoot
    /\ exit_code = <<>>
    /\ pc = "config"

\* what a step of bootstrap.py leaves alone
bootFrame ==
    <<specVars, fs, fs0, todo, reads, opens_w, read_text, raised, reported, addVars>>

\* iteration_env is set and not empty
iteration_given ==
    environ.AEGIS_ITERATION # <<>> /\ Len(environ.AEGIS_ITERATION[1]) > 0

\* sys.argv[1], or sys.stdin.read().strip() without it
read_prompt ==
    IF Len(environ.prompt.argv) > 0 THEN environ.prompt.argv[1]
    ELSE strip(environ.prompt.stdin)

\* 1. and 2.: int(iteration_env) raises ValueError, or there is no prompt
\* ("Error: No prompt provided", sys.exit(1)): the process ends with code 1
BootConfigFails ==
    /\ pc = "config"
    /\ \/ iteration_given /\ ~int_of(environ.AEGIS_ITERATION[1]).ok
       \/ Len(read_prompt) = 0
    /\ pc' = "exited"
    /\ exit_code' = <<1>>
    /\ UNCHANGED <<environ, boot>>
    /\ UNCHANGED bootFrame

\* 1. and 2.: the configuration and the prompt are read
BootConfig ==
    /\ pc = "config"
    /\ iteration_given => int_of(environ.AEGIS_ITERATION[1]).ok
    /\ Len(read_prompt) > 0
    /\ boot' = [boot EXCEPT
                  !.rendered_prompt = read_prompt,
                  !.iteration_number =
                      IF iteration_given THEN <<int_of(environ.AEGIS_ITERATION[1]).value>>
                      ELSE <<>>]
    /\ pc' = "history"
    /\ UNCHANGED <<environ, exit_code>>
    /\ UNCHANGED bootFrame

\* os.environ.get("AEGIS_ITERATION_HISTORY", "[]")
iteration_history_json ==
    IF environ.AEGIS_ITERATION_HISTORY # <<>> THEN environ.AEGIS_ITERATION_HISTORY[1]
    ELSE "[]"

\* 3. the history block raises TypeError or AttributeError: the process ends
\* with a traceback and code 1, before any request
BootHistoryRaises ==
    /\ pc = "history"
    /\ build_history(iteration_history_json).raises
    /\ pc' = "exited"
    /\ exit_code' = <<1>>
    /\ UNCHANGED <<environ, boot>>
    /\ UNCHANGED bootFrame

\* 3. and 4. up to the for loop: history_context, final_prompt, urls
BootHistory ==
    /\ pc = "history"
    /\ LET h == build_history(iteration_history_json)
       IN  /\ ~h.raises
           /\ boot' = [boot EXCEPT
                         !.history_context = h.history_context,
                         !.final_prompt = IF Len(h.history_context) > 0
                                          THEN h.history_context \o boot.rendered_prompt
                                          ELSE boot.rendered_prompt,
                         !.urls = url_list(environ.AEGIS_ORCHESTRATOR_URL)]
    /\ pc' = "loop"
    /\ UNCHANGED <<environ, exit_code>>
    /\ UNCHANGED bootFrame

\* the loop has a next base_url
LoopRuns ==
    /\ pc = "loop"
    /\ ~boot.success
    /\ Len(boot.attempts) < Len(boot.urls)

base_url ==
    boot.urls[Len(boot.attempts) + 1]

\* the request sent for base_url and the answer to it
attempt_of(resp) ==
    [base_url |-> base_url, url |-> request_url(base_url),
     prompt |-> boot.final_prompt, iteration_number |-> boot.iteration_number,
     resp |-> resp]

\* an iteration that prints the content, sets success and breaks
AttemptSucceeds ==
    /\ LoopRuns
    /\ \E resp \in Responses :
           /\ attempt_outcome(resp) = "success"
           /\ boot' = [boot EXCEPT
                         !.attempts = Append(@, attempt_of(resp)),
                         !.printed = Append(@, printed_content(resp)),
                         !.success = TRUE]
    /\ UNCHANGED <<environ, exit_code, pc>>
    /\ UNCHANGED bootFrame

\* an iteration that appends an error entry and goes on with the next URL
AttemptFails ==
    /\ LoopRuns
    /\ \E resp \in Responses :
           /\ attempt_outcome(resp) \in {"status", "http_error", "exception"}
           /\ boot' = [boot EXCEPT
                         !.attempts = Append(@, attempt_of(resp)),
                         !.errors = Append(@, [base_url |-> base_url,
                                               kind |-> attempt_outcome(resp)])]
    /\ UNCHANGED <<environ, exit_code, pc>>
    /\ UNCHANGED bootFrame

\* an iteration in which e.read().decode('utf-8') raises inside the except
\* clause: the exception leaves main, the process ends with code 1
AttemptHandlerRaises ==
    /\ LoopRuns
    /\ \E resp \in Responses :
           /\ attempt_outcome(resp) = "handler_raises"
           /\ boot' = [boot EXCEPT !.attempts = Append(@, attempt_of(resp))]
    /\ pc' = "exited"
    /\ exit_code' = <<1>>
    /\ UNCHANGED environ
    /\ UNCHANGED bootFrame

\* after the loop: sys.exit(1) without success, the end of main with it
BootExit ==
    /\ pc = "loop"
    /\ boot.success \/ Len(boot.attempts) = Len(boot.urls)
    /\ pc' = "exited"
    /\ exit_code' = IF boot.success THEN <<0>> ELSE <<1>>
    /\ UNCHANGED <<environ, boot>>
    /\ UNCHANGED bootFrame

BootNext ==
    \/ BootConfigFails
    \/ BootConfig
    \/ BootHistoryRaises
    \/ BootHistory
    \/ AttemptSucceeds
    \/ AttemptFails
    \/ AttemptHandlerRaises
    \/ BootExit

SpecBoot ==
    BootInit /\ [][BootNext]_vars

(***************************************************************************)
(* Vocabulary of the properties: zones and counts as the specification     *)
(* words them, over the file as the last run found it (opened), the text   *)
(* the run read from it (content) and the file as the run left it (disk).  *)
(* Lines are the lines a reader of the file gets, with "\r\n", "\r" and    *)
(* "\n" as line ends; ByteLines are the pieces between "\n" characters,    *)
(* with every other character kept.                                        *)
(***************************************************************************)
ReaderText(text) ==
    IF \A i \in 1..Len(text) : CharAt(text, i) # "\r" THEN text
    ELSE replace(replace(text, "\r\n", "\n"), "\r", "\n")

ReaderLines(text) ==
    split(ReaderText(text))

ByteLines(text) ==
    split(text)

\* the lines of the file the last run opened, which are the lines of the
\* text it read
LinesRead ==
    split(content)

LinesOut ==
    ReaderLines(disk)

IsSuffixOf(suffix, seq) ==
    /\ Len(suffix) <= Len(seq)
    /\ SubSeq(seq, Len(seq) - Len(suffix) + 1, Len(seq)) = suffix

\* seq without its element at the 1-based position k
WithoutAt(seq, k) ==
    SubSeq(seq, 1, k - 1) \o SubSeq(seq, k + 1, Len(seq))

BlankLine(line) ==
    \A i \in 1..Len(line) : CharAt(line, i) \in Whitespace

HasPrefix(line, p) ==
    Len(line) >= Len(p) /\ SubSeq(line, 1, Len(p)) = p

DocLine(line) ==
    HasPrefix(line, "//!")

CommentLine(line) ==
    HasPrefix(line, "//")

HeadingLine(line) ==
    contains("//! # Architecture", line)

AdrLine(line) ==
    contains("Related ADRs", line)

BulletLine(line) ==
    HasPrefix(line, "//! -")

LicenseLine(line) ==
    \/ HasPrefix(line, "// Copyright (c)")
    \/ HasPrefix(line, "// SPDX-License-Identifier")

CountLines(seq, P(_)) ==
    Cardinality({i \in 1..Len(seq) : P(seq[i])})

\* the number of lines the License zone takes from the input
LicensePrefixLen(lines) ==
    license_step(lines).idx

\* Body: from the first line after the license prefix that is neither blank
\* nor doc-prefixed, to the end
BodyOf(lines) ==
    LET cand == {j \in (LicensePrefixLen(lines) + 1)..Len(lines) :
                    ~BlankLine(lines[j]) /\ ~DocLine(lines[j])}
    IN  IF cand = {} THEN <<>> ELSE SubSeq(lines, SetMin(cand), Len(lines))

\* the leading run of comment and blank lines: everything before the first
\* code line
LeadingRun(lines) ==
    LET code == {j \in 1..Len(lines) : ~BlankLine(lines[j]) /\ ~CommentLine(lines[j])}
    IN  IF code = {} THEN lines ELSE SubSeq(lines, 1, SetMin(code) - 1)

MarkerInLeadingRun(lines) ==
    \E i \in 1..Len(LeadingRun(lines)) :
        contains("SPDX-License-Identifier", LeadingRun(lines)[i])

\* Case C of the last run: the Doc zone read already had the heading
CaseC ==
    /\ runs >= 1
    /\ \E i \in 1..Len(locals.doc_in) : HeadingLine(locals.doc_in[i])

\* Case C in which a bullet has to be inserted
CaseCInsert ==
    /\ CaseC
    /\ Len(info.adrs) > 0
    /\ CountLines(locals.doc_in, AdrLine) = 0

\* the bullet run of the Architecture section: the maximal run of bullet
\* lines that follows the heading, blank doc lines ("//!") in between skipped
BulletRunStart(doc) ==
    LET h == SetMin({i \in 1..Len(doc) : HeadingLine(doc[i])})
        stop == {j \in (h + 1)..Len(doc) : strip(doc[j]) # "//!"}
    IN  IF stop = {} THEN 0
        ELSE IF BulletLine(doc[SetMin(stop)]) THEN SetMin(stop) ELSE 0

BulletRunEnd(doc) ==
    LET s == BulletRunStart(doc)
        past == {j \in s..Len(doc) : ~BulletLine(doc[j])}
    IN  IF past = {} THEN Len(doc) ELSE SetMin(past) - 1

(***************************************************************************)
(* Properties of process_file (specification Spec).                        *)
(***************************************************************************)

\* C1: running process_file on the output of a previous run changes nothing:
\* from the second run on, the text written equals the text read.
C1_SecondRunUnchanged ==
    runs >= 2 => disk = opened

\* C2: the output ends with exactly the Body lines of the input, unmodified
\* and in order: the Body zone of the file the run opened is, character for
\* character, a suffix of the file the run left.
C2_BodyPreserved ==
    runs >= 1 => IsSuffixOf(BodyOf(ByteLines(opened)), ByteLines(disk))

\* C3: a file whose leading comment run has the SPDX marker gets no second
\* header: as many copyright/SPDX lines after the run as before it.
C3_NoSecondHeader ==
    (runs >= 1 /\ MarkerInLeadingRun(LinesRead))
        => CountLines(LinesOut, LicenseLine) = CountLines(LinesRead, LicenseLine)

\* C4: with a non-empty ReferenceSet and no 'Related ADRs' bullet the output
\* Doc zone has exactly one; with a bullet already there none is added.
C4_ReferenceMonotonic ==
    runs >= 1 =>
        /\ (Len(info.adrs) > 0 /\ CountLines(locals.doc_in, AdrLine) = 0)
               => CountLines(locals.doc_out, AdrLine) = 1
        /\ CountLines(locals.doc_in, AdrLine) >= 1
               => CountLines(locals.doc_out, AdrLine) = CountLines(locals.doc_in, AdrLine)

\* C5: in Case C the new bullet goes immediately after the last bullet of
\* the bullet run of the Architecture section.
C5_InsertAfterBulletRun ==
    (CaseCInsert /\ BulletRunStart(locals.doc_in) # 0)
        => /\ Len(locals.doc_out) = Len(locals.doc_in) + 1
           /\ AdrLine(locals.doc_out[BulletRunEnd(locals.doc_in) + 1])

\* C6: in Case C every existing Doc line is kept in place: the Doc zone is
\* unchanged when there is nothing to add, and has exactly one line more
\* otherwise.
C6_CaseCFrame ==
    CaseC =>
        IF CaseCInsert
        THEN \E k \in 1..Len(locals.doc_out) : WithoutAt(locals.doc_out, k) = locals.doc_in
        ELSE locals.doc_out = locals.doc_in

\* C6 witness: a Case C run that inserted the bullet between existing lines
C6_Witness ==
    /\ CaseCInsert
    /\ ~AdrLine(locals.doc_out[Len(locals.doc_out)])
    /\ \E i \in 1..Len(locals.doc_out) : AdrLine(locals.doc_out[i])

\* C7: the synthesis applied to its own output changes nothing, and the run
\* after any run is a Case C run that inserts nothing.
C7_SynthIdempotent ==
    runs >= 1 =>
        /\ synth_doc(locals.doc_out, info.module_name, info.layer, info.adrs) = locals.doc_out
        /\ \E i \in 1..Len(locals.doc_out) : HeadingLine(locals.doc_out[i])
        /\ runs >= 2 => (CaseC /\ locals.doc_out = locals.doc_in)

\* C7 witness: a second run on a Doc zone whose 'Related ADRs' bullet was
\* written by the first run
C7_Witness ==
    /\ runs = 2
    /\ Len(info.adrs) > 0
    /\ CountLines(split(original), AdrLine) = 0
    /\ CountLines(locals.doc_in, AdrLine) = 1

(***************************************************************************)
(* Properties of main (specification SpecMain).                            *)
(***************************************************************************)
\* the .rs files of the tree that are not below an ignored directory
Candidates ==
    {f \in AllFiles :
        /\ Len(f) >= 3 /\ SubSeq(f, Len(f) - 2, Len(f)) = ".rs"
        /\ \A d \in {"node_modules", "target", "dist"} : ~contains("/" \o d \o "/", f)}

Done ==
    pc = "done"

\* C8: each candidate file is read once and opened for writing at most once
\* (opens_w counts the calls of open(filepath, 'w')), and it is opened for
\* writing exactly when the reassembled text differs from the text read; a
\* file whose reassembled text equals the original is not opened for
\* writing, a file that is not opened for writing keeps its content, and a
\* file whose writing returned holds the reassembled text.
C8_WriteOnlyOnChange ==
    pc \in {"walk", "done"} =>
        \A f \in AllFiles :
            /\ reads[f] <= 1
            /\ opens_w[f] <= 1
            /\ (Done /\ f \in Candidates) => reads[f] = 1
            /\ f \notin Candidates => reads[f] = 0
            /\ read_text[f] = <<>> => opens_w[f] = 0
            /\ read_text[f] # <<>> =>
                   LET new_text == process_file_with(info[f], read_text[f][1]).new_content
                   IN  /\ opens_w[f] = 1 <=> new_text # read_text[f][1]
                       /\ new_text = fs0[f] => opens_w[f] = 0
                       /\ (opens_w[f] = 1 /\ f \notin raised) => fs[f] = new_text
            /\ opens_w[f] = 0 => fs[f] = fs0[f]

\* C8 witness: a finished run that rewrote one file and read another one
\* without opening it for writing
C8_Witness ==
    /\ Done
    /\ \E f \in Candidates : opens_w[f] = 1 /\ f \notin raised /\ fs[f] # fs0[f]
    /\ \E f \in Candidates : read_text[f] # <<>> /\ opens_w[f] = 0

\* C9: when process_file raises for a file the error is reported with its
\* path and the run goes on: at the end every candidate has been processed.
C9_ErrorIsolation ==
    Done =>
        /\ \A f \in Candidates : reads[f] = 1
        /\ {reported[i] : i \in 1..Len(reported)} = raised
        /\ Len(reported) = Cardinality(raised)

\* C9 witness: the first file of the traversal failed and a later one was
\* still rewritten
C9_Witness ==
    /\ Done
    /\ path_join(REPO_DIR, "lib.rs") \in raised
    /\ \E f \in Candidates : f \notin raised /\ opens_w[f] = 1 /\ fs[f] # fs0[f]

\* C10: a file for which process_file raised holds exactly the content it
\* had before the run.
C10_FailedFileUnmodified ==
    pc \in {"walk", "done"} => \A f \in raised : fs[f] = fs0[f]

(***************************************************************************)
(* Properties of the License zone scan and of the reassembly               *)
(* (specification Spec).                                                   *)
(***************************************************************************)
\* the lines of the input the License zone scan consumed
ConsumedLicenseZone ==
    SubSeq(LinesRead, 1, LicensePrefixLen(LinesRead))

\* C11: the file is treated as already licensed (no template header is
\* synthesized) if and only if some line of the consumed License zone
\* contains the marker 'SPDX-License-Identifier'.
C11_MarkerIsOnlySignal ==
    runs >= 1 =>
        (locals.copyright_present
            <=> \E i \in 1..Len(ConsumedLicenseZone) :
                    contains("SPDX-License-Identifier", ConsumedLicenseZone[i]))

\* the Doc zone of the input: the lines between the consumed License zone
\* and the Body, without the blank lines at either end
DocZoneOf(lines) ==
    LET from == LicensePrefixLen(lines) + 1
        to == Len(lines) - Len(BodyOf(lines))
        full == {j \in from..to : ~BlankLine(lines[j])}
    IN  IF full = {} THEN <<>> ELSE SubSeq(lines, SetMin(full), SetMax(full))

\* C12: a non-empty Doc zone without the exact heading text is Case B: the
\* output Doc zone is the existing Doc lines, then a blank doc line, the
\* heading, a blank doc line, the Layer bullet, the Purpose bullet, and the
\* 'Related ADRs' bullet exactly when the ReferenceSet is non-empty.
C12_MalformedHeadingCaseB ==
    runs >= 1 =>
        \A doc \in {DocZoneOf(LinesRead)} :
            (doc # <<>> /\ CountLines(doc, HeadingLine) = 0)
                => LET n == Len(doc)
                       out == locals.doc_out
                       k == IF Len(info.adrs) > 0 THEN 6 ELSE 5
                   IN  /\ Len(out) = n + k
                       /\ SubSeq(out, 1, n) = doc
                       /\ out[n + 1] = "//!"
                       /\ out[n + 2] = "//! # Architecture"
                       /\ out[n + 3] = "//!"
                       /\ out[n + 4] = "//! - **Layer:** " \o info.layer
                       /\ HasPrefix(out[n + 5], "//! - **Purpose:** ")
                       /\ k = 6 => HasPrefix(out[n + 6], "//! - **Related ADRs:** ")

\* C12 witness: a Doc zone with a heading that is not the exact text
\* ("//! ## Architecture"), a path with ADRs, and a run that wrote the file
C12_Witness ==
    /\ runs = 1
    /\ Len(info.adrs) > 0
    /\ \E i \in 1..Len(DocZoneOf(LinesRead)) :
            /\ contains("Architecture", DocZoneOf(LinesRead)[i])
            /\ ~HeadingLine(DocZoneOf(LinesRead)[i])
    /\ CountLines(DocZoneOf(LinesRead), HeadingLine) = 0
    /\ disk # opened

\* C13: the output is the License zone, then a non-empty Doc zone whose
\* first and last lines are doc-prefixed, then exactly one empty line, then
\* the Body of the input, whose first line is not blank.
C13_ReassemblyShape ==
    runs >= 1 =>
        \A lines_read \in {LinesRead}, lines_out \in {LinesOut} :
        LET doc == locals.doc_out
            body == BodyOf(lines_read)
        IN  /\ lines_out = locals.license_lines \o doc \o <<"">> \o body
            /\ Len(doc) > 0
            /\ DocLine(doc[1])
            /\ DocLine(doc[Len(doc)])
            /\ body # <<>> => ~BlankLine(body[1])

\* C13 witness: doc comments separated from the code by several blank
\* lines, one of them with white space in it
C13_Witness ==
    /\ runs = 1
    /\ DocZoneOf(LinesRead) # <<>>
    /\ BodyOf(LinesRead) # <<>>
    /\ LET gap == Len(LinesRead) - Len(BodyOf(LinesRead))
       IN  /\ gap >= 3
           /\ \A j \in (gap - 2)..gap : BlankLine(LinesRead[j])
           /\ \E j \in (gap - 2)..gap : LinesRead[j] # ""

\* the length of the longest prefix made of license lines, plus a blank
\* line only at line index 1 after a license line
LicenseZoneLen(lines) ==
    LET bad == {i \in 1..Len(lines) :
                  /\ ~LicenseLine(lines[i])
                  /\ ~(i = 2 /\ BlankLine(lines[2]) /\ LicenseLine(lines[1]))}
    IN  IF bad = {} THEN Len(lines) ELSE SetMin(bad) - 1

NonBlank(seq) ==
    SelectSeq(seq, LAMBDA line : ~BlankLine(line))

\* C16: the License zone is the longest such prefix and the file counts as
\* licensed iff it is non-empty; an empty prefix gives the template and
\* consumes no input line, a non-empty prefix is emitted unmodified as the
\* first lines of the output with no template line.
C16_LicenseZoneScan ==
    runs >= 1 =>
        \A lines_read \in {LinesRead}, lines_out \in {LinesOut} :
        LET n == LicenseZoneLen(lines_read)
            scanned_on == NonBlank(locals.doc_in \o locals.rest)
            template == << "// Copyright (c) 2026 100monkeys.ai",
                           "// SPDX-License-Identifier: AGPL-3.0",
                           "" >>
        IN  /\ locals.copyright_present <=> n > 0
            /\ n = 0 => /\ locals.license_lines = template
                        /\ SubSeq(lines_out, 1, 3) = template
                        /\ DocLine(lines_out[4])
                        /\ scanned_on = NonBlank(lines_read)
            /\ n > 0 => /\ locals.license_lines = SubSeq(lines_read, 1, n)
                        /\ SubSeq(lines_out, 1, n) = SubSeq(lines_read, 1, n)
                        /\ DocLine(lines_out[n + 1])
                        /\ scanned_on = NonBlank(SubSeq(lines_read, n + 1, Len(lines_read)))

\* C16 witness: a license line, a blank line at index 1, a license line
\* after it, all three consumed, and a blank line at index 3 that is not
\* consumed
C16_Witness ==
    /\ runs = 1
    /\ Len(LinesRead) >= 5
    /\ LicenseZoneLen(LinesRead) = 3
    /\ BlankLine(LinesRead[2])
    /\ BlankLine(LinesRead[4])
    /\ locals.copyright_present
    /\ Len(locals.license_lines) = 3

(***************************************************************************)
(* Properties of determine_layer and determine_adrs                        *)
(* (specification SpecPaths).                                              *)
(***************************************************************************)
\* the layer rules in their fixed order: directory name and label
LayerRules ==
    << <<"domain", "Domain Layer">>,
       <<"application", "Application Layer">>,
       <<"infrastructure", "Infrastructure Layer">>,
       <<"presentation", "Presentation Layer">>,
       <<"cli", "Interface / Presentation Layer">>,
       <<"swarm", "Swarm Coordination Layer">>,
       <<"cortex", "Learning & Memory Layer">> >>

\* the rules whose directory substring occurs in the lower-cased path
MatchingRules(path) ==
    LET lowered == lower(path)
    IN  {k \in 1..Len(LayerRules) :
            \/ contains(LayerRules[k][1] \o "/", lowered)
            \/ contains(LayerRules[k][1] \o "\\", lowered)}

\* the path has been processed
PathDone ==
    runs = 1 /\ info # NoInfo

\* C14: determine_layer returns the label of the first rule, in the fixed
\* order, whose directory substring occurs in the lower-cased path, and
\* 'Core System' when no rule matches.
C14_LayerFirstMatch ==
    PathDone =>
        LET M == MatchingRules(filepath)
        IN  info.layer = IF M = {} THEN "Core System" ELSE LayerRules[SetMin(M)][2]

\* C14 witness: a path with backslashes and an upper-case directory that
\* matches several rules, the cortex rule among them
C14_Witness ==
    /\ PathDone
    /\ Cardinality(MatchingRules(filepath)) >= 2
    /\ 7 \in MatchingRules(filepath)
    /\ contains("\\", filepath)
    /\ lower(filepath) # filepath

\* the entries of ADR_MAPPINGS whose pattern is a substring of the path with
\* every backslash turned into a slash
MatchingEntries(path) ==
    LET normalized == replace(path, "\\", "/")
    IN  {k \in 1..Len(ADR_MAPPINGS) : contains(ADR_MAPPINGS[k][1], normalized)}

\* the j-th smallest element of a set of numbers
Nth(S, j) ==
    CHOOSE k \in S : Cardinality({m \in S : m < k}) = j - 1

RECURSIVE CommaJoined(_)
CommaJoined(seq) ==
    IF Len(seq) = 0 THEN ""
    ELSE IF Len(seq) = 1 THEN seq[1]
    ELSE seq[1] \o ", " \o CommaJoined(Tail(seq))

\* C15: determine_adrs returns the identifiers of all matching entries in
\* table order, one per matching entry (the same identifier twice when two
\* entries carry it), and the 'Related ADRs' bullet joins them with ', '.
C15_AllMatchesInOrder ==
    PathDone =>
        LET M == MatchingEntries(filepath)
            doc == locals.doc_out
        IN  /\ Len(info.adrs) = Cardinality(M)
            /\ \A j \in 1..Len(info.adrs) : info.adrs[j] = ADR_MAPPINGS[Nth(M, j)][2]
            /\ M # {} => doc[Len(doc)] = "//! - **Related ADRs:** " \o CommaJoined(info.adrs)
            /\ M = {} => CountLines(doc, AdrLine) = 0

\* C15 witness: a path with backslashes that matches the two entries with
\* the identifier ADR-036, which is then listed twice
C15_Witness ==
    /\ PathDone
    /\ contains("\\", filepath)
    /\ MatchingEntries(filepath) = {10, 11}
    /\ info.adrs[1] = info.adrs[2]
    /\ AdrLine(locals.doc_out[Len(locals.doc_out)])

(***************************************************************************)
(* Properties of add-license-headers.py (specification SpecAdd).           *)
(***************************************************************************)
\* the header as the specification gives it: the copyright line, the
\* license-identifier line, an empty line
HeaderText ==
    "// Copyright (c) 2026 100monkeys.ai\n// SPDX-License-Identifier: AGPL-3.0\n\n"

HasAgplMarker(file_text) ==
    \E i \in 1..Len(file_text) :
        HasPrefix(StrFrom(file_text, i - 1), "SPDX-License-Identifier: AGPL-3.0")

\* C17: add_header returns False and writes nothing when the content has
\* the marker anywhere, otherwise it returns True and the content becomes
\* the header followed by the original content, which is the text read from
\* the file; whatever the number of calls the header is prepended at most
\* once to a file, and updated never exceeds scanned.
C17_MarkerGuardedIdempotent ==
    /\ updated <= scanned
    /\ \A f \in DOMAIN prepends :
           /\ prepends[f] <= 1
           /\ f \notin raised =>
                  fs[f] = IF prepends[f] = 1 THEN HeaderText \o ReaderText(fs0[f]) ELSE fs0[f]
    /\ last_add # <<>> =>
           LET c == last_add[1]
           IN  /\ c.ret = ~HasAgplMarker(c.before)
               /\ c.path \notin raised =>
                      fs[c.path] = IF c.ret THEN HeaderText \o ReaderText(c.before)
                                            ELSE c.before

\* C17 witness: a second run of main has finished without any failure; a
\* file got the header in the first run and add_header returned False for
\* it in the second, and a file with the marker in the middle was left alone
C17_Witness ==
    /\ passes = 2
    /\ pc = "done"
    /\ raised = {}
    /\ last_add # <<>>
    /\ prepends[last_add[1].path] = 1
    /\ ~last_add[1].ret
    /\ \E f \in AddCandidates :
           prepends[f] = 0 /\ HasAgplMarker(fs0[f]) /\ ~HasPrefix(fs0[f], HeaderText)

\* C18: a failure of add_header for one file does not abort the run: when
\* the run has ended every non-skipped .rs file has been scanned and the
\* summary line has been printed.
C18_AddErrorIsolation ==
    pc \in {"done", "crashed"} =>
        /\ scanned = Cardinality(AddCandidates)
        /\ Len(reported) = 1
        /\ reported[1] = [scanned |-> scanned, updated |-> updated]

(***************************************************************************)
(* Properties of bootstrap.py (specification SpecBoot).                    *)
(***************************************************************************)
\* the override (if set) followed by the default URL, without duplicates
CandidateList ==
    LET override == environ.AEGIS_ORCHESTRATOR_URL
    IN  IF override = <<>> \/ override = <<"">> \/ override = <<"http://host.docker.internal:8000">>
        THEN <<"http://host.docker.internal:8000">>
        ELSE <<override[1], "http://host.docker.internal:8000">>

\* an answer with a 2xx status and a body that parses as JSON
Parsable2xx(resp) ==
    /\ resp.kind = "response"
    /\ resp.status \in 200..299
    /\ resp.body # <<>>
    /\ json_loads(resp.body[1]).ok

\* the for loop has been reached
InLoop ==
    pc \in {"loop", "exited"} /\ boot.urls # <<>>

\* C19: the candidate list is the override (if set) followed by the
\* default, without duplicates; the URLs are tried in that order, each at
\* most once; none is tried after an attempt that returned 2xx with a
\* parsable body; every failed attempt appends one error entry and moves to
\* the next URL; the exit code is 1 if and only if no attempt succeeded.
C19_UrlFailover ==
    /\ InLoop =>
           /\ boot.urls = CandidateList
           /\ Len(boot.attempts) <= Len(boot.urls)
           /\ \A i \in 1..Len(boot.attempts) : boot.attempts[i].base_url = boot.urls[i]
           /\ \A i \in 1..(Len(boot.attempts) - 1) : ~Parsable2xx(boot.attempts[i].resp)
           /\ Len(boot.errors) = Len(boot.attempts) - (IF boot.success THEN 1 ELSE 0)
           /\ pc = "exited" => (boot.success \/ Len(boot.attempts) = Len(boot.urls))
    /\ pc = "exited" => (exit_code = <<1>>) = ~boot.success

\* the value of AEGIS_ITERATION_HISTORY is malformed: text that is no JSON,
\* or JSON that is not a list of objects
MalformedHistory ==
    /\ environ.AEGIS_ITERATION_HISTORY # <<>>
    /\ LET parsed == json_loads(environ.AEGIS_ITERATION_HISTORY[1])
       IN  \/ ~parsed.ok
           \/ parsed.value.t # "list"
           \/ \E i \in 1..Len(parsed.value.v) : parsed.value.v[i].t # "dict"

\* C20: with a malformed iteration history and a prompt, bootstrap does not
\* end before the request, and the prompt it sends is the rendered prompt
\* with no history prefix.
C20_ToleratesMalformedHistory ==
    (MalformedHistory /\ Len(boot.rendered_prompt) > 0) =>
        /\ pc = "exited" => Len(boot.attempts) >= 1
        /\ \A i \in 1..Len(boot.attempts) :
               boot.attempts[i].prompt = boot.rendered_prompt

(***************************************************************************)
(* Properties of consecutive runs of process_file (specification Spec).    *)
(***************************************************************************)
\* the file had a license line on its first line before the first run
LicensedAtFirstLine ==
    LicenseLine(original)

\* C21: the third consecutive run of process_file never changes the text,
\* and when the first line of the input is a license line the second run
\* already changes nothing.
C21_ConvergesInTwoRuns ==
    /\ runs >= 3 => disk = opened
    /\ (runs >= 2 /\ LicensedAtFirstLine) => disk = opened

\* C21 witness: three runs on a file without a license line, of which the
\* first two rewrote the file and the third left it as it was
C21_Witness ==
    /\ runs = 3
    /\ ~LicensedAtFirstLine
    /\ writes = 2
    /\ disk = opened
    /\ disk # original

\* a embeds in b from the positions i and j on: the elements a[i..] occur
\* in b[j..] unmodified and in the same relative order
RECURSIVE EmbedsFrom(_, _, _, _)
EmbedsFrom(a, b, i, j) ==
    IF i > Len(a) THEN TRUE
    ELSE IF j > Len(b) THEN FALSE
    ELSE IF a[i] = b[j] THEN EmbedsFrom(a, b, i + 1, j + 1)
    ELSE EmbedsFrom(a, b, i, j + 1)

IsSubsequenceOf(a, b) ==
    EmbedsFrom(a, b, 1, 1)

\* C22: every non-blank line of the input is in the output of process_file,
\* unmodified and in the same relative order, for the text the last run read
\* and for the text the file had before the first run.
C22_NoNonBlankLineLost ==
    runs >= 1 =>
        \A lines_out \in {LinesOut} :
            /\ IsSubsequenceOf(NonBlank(LinesRead), lines_out)
            /\ IsSubsequenceOf(NonBlank(ReaderLines(original)), lines_out)

\* C22 witness: a run on a file with license, doc and body lines that added
\* lines and dropped the blank line after the license prefix
C22_Witness ==
    /\ runs = 1
    /\ locals.copyright_present
    /\ Len(locals.doc_in) > 0
    /\ Len(NonBlank(locals.rest)) > 0
    /\ LicensePrefixLen(LinesRead) < Len(LinesRead)
    /\ BlankLine(LinesRead[LicensePrefixLen(LinesRead) + 1])
    /\ ~BlankLine(LinesOut[LicensePrefixLen(LinesRead) + 1])
    /\ Len(LinesOut) > Len(LinesRead)

====
